---- MODULE Spec2Model ----
(***************************************************************************)
(* Model of the kb_agent chat participant (src/kb.ts): the prompt          *)
(* normalizer, the command dispatcher, the Confluence request client and   *)
(* the single credential slot, together with the remote wiki they talk to. *)
(*                                                                         *)
(* JavaScript strings are sequences of one-character strings.  A JSON      *)
(* object literal typed after /auth is one element of the sequence (a      *)
(* name of JsonDocs), so that the text around it is still handled          *)
(* character by character.                                                 *)
(***************************************************************************)
EXTENDS Integers, Sequences, FiniteSets, TLC

VARIABLES confluenceAuth, globalState, overlap, turn, wiki, called

vars == <<confluenceAuth, globalState, overlap, turn, wiki, called>>

(***************************************************************************)
(* Bounds of the model.                                                    *)
(***************************************************************************)
MaxTurns == 2
MaxVersion == 3
\* longest input of a direct call of normalizePrompt
MaxInputLen == 6

Turns == 1..MaxTurns

(***************************************************************************)
(* String primitives of the JavaScript runtime.                            *)
(***************************************************************************)
WhiteSpace == {" ", "\t", "\n"}

RECURSIVE TrimStart(_)
TrimStart(s) ==
  IF s = <<>> THEN <<>>
  ELSE IF Head(s) \in WhiteSpace THEN TrimStart(Tail(s)) ELSE s

RECURSIVE TrimEnd(_)
TrimEnd(s) ==
  IF s = <<>> THEN <<>>
  ELSE IF s[Len(s)] \in WhiteSpace THEN TrimEnd(SubSeq(s, 1, Len(s) - 1)) ELSE s

Trim(s) == TrimEnd(TrimStart(s))

StartsWith(s, p) == Len(s) >= Len(p) /\ SubSeq(s, 1, Len(p)) = p

\* String.prototype.indexOf for a one-character needle, 0-based, -1 if absent
IndexOf(s, c) ==
  IF \E i \in 1..Len(s) : s[i] = c
  THEN (CHOOSE i \in 1..Len(s) : s[i] = c /\ \A j \in 1..(i - 1) : s[j] # c) - 1
  ELSE -1

\* String.prototype.slice(from) and slice(from, to) with 0-based indices
SliceFrom(s, from) == SubSeq(s, from + 1, Len(s))
Slice(s, from, to) == SubSeq(s, from + 1, to)

\* rest.replace(p, '') where rest starts with p: the first occurrence is the prefix
ReplaceFirst(s, p) == IF StartsWith(s, p) THEN SliceFrom(s, Len(p)) ELSE s

\* rest.split(' ').filter(Boolean): the maximal runs of non-space characters
RECURSIVE SplitWords(_, _, _)
SplitWords(s, cur, acc) ==
  IF s = <<>> THEN (IF cur = <<>> THEN acc ELSE Append(acc, cur))
  ELSE IF Head(s) = " "
       THEN SplitWords(Tail(s), <<>>, IF cur = <<>> THEN acc ELSE Append(acc, cur))
       ELSE SplitWords(Tail(s), Append(cur, Head(s)), acc)

SplitFilter(s) == SplitWords(s, <<>>, <<>>)

\* /\/$/ : one slash at the very end is removed
StripTrailingSlash(s) ==
  IF s # <<>> /\ s[Len(s)] = "/" THEN SubSeq(s, 1, Len(s) - 1) ELSE s

(***************************************************************************)
(* normalizePrompt                                                         *)
(***************************************************************************)
\* the link test without its end anchor
LinkMatch_Unanchored(t) ==
  LET close == IndexOf(t, "]") + 1
  IN  /\ Len(t) >= 5
      /\ t[1] = "["
      /\ close >= 3
      /\ close + 2 <= Len(t)
      /\ t[close + 1] = "("
      /\ \E j \in (close + 2)..Len(t) : t[j] = ")"

\* /^\[([^\]]+)\]\([^\)]*\)$/ applied to t; the label ends at the first "]"
LinkMatch(t) ==
  LET close == IndexOf(t, "]") + 1
  IN  /\ Len(t) >= 5
      /\ t[1] = "["
      /\ close >= 3
      /\ close + 2 <= Len(t)
      /\ t[close + 1] = "("
      /\ t[Len(t)] = ")"
      /\ \A i \in (close + 2)..(Len(t) - 1) : t[i] # ")"

LinkLabel(t) == SubSeq(t, 2, IndexOf(t, "]"))

\* an undefined input is <<"undefined">>; input ?? '' makes it the empty string
normalizePrompt(input) ==
  LET raw == Trim(IF input = <<"undefined">> THEN <<>> ELSE input)
  IN  IF LinkMatch(raw) THEN Trim(LinkLabel(raw)) ELSE raw

(***************************************************************************)
(* Values.  null and undefined of an object-typed slot are the empty       *)
(* sequence, a present value v is <<v>>.  A string-typed field that is     *)
(* undefined is UNDEFINED, which template literals render as the text      *)
(* "undefined".                                                            *)
(***************************************************************************)
null == <<>>
Some(v) == <<v>>

UNDEFINED == <<"undefined">>

\* ${v} : String(v) of a string or of undefined
Str(v) == IF v = UNDEFINED THEN <<"u", "n", "d", "e", "f", "i", "n", "e", "d">> ELSE v

\* !v for a string-or-undefined v
Falsy(v) == v = UNDEFINED \/ v = <<>>

DigitChar == <<"0", "1", "2", "3", "4", "5", "6", "7", "8", "9">>

\* String(n) of a natural number
RECURSIVE Digits(_)
Digits(n) == IF n < 10 THEN <<DigitChar[n + 1]>> ELSE Digits(n \div 10) \o <<DigitChar[(n % 10) + 1]>>

\* s.includes(sub)
Contains(s, sub) == \E i \in 0..(Len(s) - Len(sub)) : SubSeq(s, i + 1, i + Len(sub)) = sub

(***************************************************************************)
(* JSON.parse.  The object literals a user can type after /auth are the    *)
(* names of JsonDocs; each stands for the text of one JSON object and maps *)
(* to the object it parses to.  Any other text parses as a number when it  *)
(* is all digits, as null when it is the word null, and is a SyntaxError   *)
(* otherwise.                                                              *)
(***************************************************************************)
Obj(t, u, e) == [token |-> t, url |-> u, email |-> e]

JsonDocs ==
  [d \in {"{t,h,e}", "{x,h,e}", "{t,h/,e}", "{t,h//,e}", "{t,/,e}", "{x,g,e}",
          "{h,e}", "{t,e}", "{t,h}", "{,h,e}", "{}"} |->
     CASE d = "{t,h,e}"   -> Obj(<<"t">>, <<"h">>, <<"e">>)
       [] d = "{x,h,e}"   -> Obj(<<"x">>, <<"h">>, <<"e">>)
       [] d = "{t,h/,e}"  -> Obj(<<"t">>, <<"h", "/">>, <<"e">>)
       [] d = "{t,h//,e}" -> Obj(<<"t">>, <<"h", "/", "/">>, <<"e">>)
       [] d = "{t,/,e}"   -> Obj(<<"t">>, <<"/">>, <<"e">>)
       [] d = "{x,g,e}"   -> Obj(<<"x">>, <<"g">>, <<"e">>)
       [] d = "{h,e}"     -> Obj(UNDEFINED, <<"h">>, <<"e">>)
       [] d = "{t,e}"     -> Obj(<<"t">>, UNDEFINED, <<"e">>)
       [] d = "{t,h}"     -> Obj(<<"t">>, <<"h">>, UNDEFINED)
       [] d = "{,h,e}"    -> Obj(<<>>, <<"h">>, <<"e">>)
       [] d = "{}"        -> Obj(UNDEFINED, UNDEFINED, UNDEFINED)]

IsDigits(s) == s # <<>> /\ \A i \in 1..Len(s) : \E k \in 1..10 : s[i] = DigitChar[k]

\* kind "object": data is the parsed object; "number": property reads give
\* undefined; "null": property reads throw a TypeError; "error": SyntaxError
JSONparse(text) ==
  IF Len(text) = 1 /\ text[1] \in DOMAIN JsonDocs
  THEN [kind |-> "object", data |-> JsonDocs[text[1]]]
  ELSE IF IsDigits(text)
  THEN [kind |-> "number", data |-> Obj(UNDEFINED, UNDEFINED, UNDEFINED)]
  ELSE IF text = <<"n", "u", "l", "l">>
  THEN [kind |-> "null", data |-> Obj(UNDEFINED, UNDEFINED, UNDEFINED)]
  ELSE [kind |-> "error", data |-> Obj(UNDEFINED, UNDEFINED, UNDEFINED)]

(***************************************************************************)
(* The prompts a user submits (request.prompt), as typed.                  *)
(***************************************************************************)
AuthPrompts ==
  {
    <<"@", "k", "b", "_", "a", "g", "e", "n", "t", " ", "/", "a", "u", "t", "h", " ", "{t,h,e}">>,
    <<"@", "k", "b", "_", "a", "g", "e", "n", "t", " ", "/", "a", "u", "t", "h", " ", "{x,h,e}">>,
    <<"@", "k", "b", "_", "a", "g", "e", "n", "t", " ", "/", "a", "u", "t", "h", " ", "{t,h/,e}">>,
    <<"@", "k", "b", "_", "a", "g", "e", "n", "t", " ", "/", "a", "u", "t", "h", " ", "{t,h//,e}">>,
    <<"@", "k", "b", "_", "a", "g", "e", "n", "t", " ", "/", "a", "u", "t", "h", " ", "{t,/,e}">>,
    <<"@", "k", "b", "_", "a", "g", "e", "n", "t", " ", "/", "a", "u", "t", "h", " ", "{x,g,e}">>,
    <<"@", "k", "b", "_", "a", "g", "e", "n", "t", " ", "/", "a", "u", "t", "h", " ", "{h,e}">>,
    <<"@", "k", "b", "_", "a", "g", "e", "n", "t", " ", "/", "a", "u", "t", "h", " ", "{t,e}">>,
    <<"@", "k", "b", "_", "a", "g", "e", "n", "t", " ", "/", "a", "u", "t", "h", " ", "{t,h}">>,
    <<"@", "k", "b", "_", "a", "g", "e", "n", "t", " ", "/", "a", "u", "t", "h", " ", "{,h,e}">>,
    <<"@", "k", "b", "_", "a", "g", "e", "n", "t", " ", "/", "a", "u", "t", "h", " ", "{}">>,
    <<"@", "k", "b", "_", "a", "g", "e", "n", "t", " ", "/", "a", "u", "t", "h">>,
    <<"@", "k", "b", "_", "a", "g", "e", "n", "t", " ", "/", "a", "u", "t", "h", " ", "n", "u", "l", "l">>,
    <<"@", "k", "b", "_", "a", "g", "e", "n", "t", " ", "/", "a", "u", "t", "h", " ", "5">>,
    <<"@", "k", "b", "_", "a", "g", "e", "n", "t", " ", "/", "a", "u", "t", "h", "o", "r", "i", "z", "e">>,
    <<"@", "k", "b", "_", "a", "g", "e", "n", "t", " ", "/", "a", "u", "t", "h", "o", "r", "i", "z", "e", " ", "{t,h,e}">>
  }

\* an object literal cut short: not parseable
TruncatedAuthPrompt == <<"@", "k", "b", "_", "a", "g", "e", "n", "t", " ", "/", "a", "u", "t", "h", " ", "{", "t">>

PagePrompts ==
  {
    <<"@", "k", "b", "_", "a", "g", "e", "n", "t", " ", "/", "p", "a", "g", "e">>,
    <<"@", "k", "b", "_", "a", "g", "e", "n", "t", " ", "/", "p", "a", "g", "e", " ", "1">>,
    <<"@", "k", "b", "_", "a", "g", "e", "n", "t", " ", "/", "p", "a", "g", "e", " ", "2">>,
    <<"@", "k", "b", "_", "a", "g", "e", "n", "t", " ", "/", "p", "a", "g", "e", " ", "1", " ", "2">>,
    <<"@", "k", "b", "_", "a", "g", "e", "n", "t", " ", "/", "p", "a", "g", "e", "s">>,
    <<"@", "k", "b", "_", "a", "g", "e", "n", "t", " ", "/", "p", "a", "g", "e", "s", " ", "1">>
  }

UpdatePrompts ==
  {
    <<"@", "k", "b", "_", "a", "g", "e", "n", "t", " ", "/", "u", "p", "d", "a", "t", "e">>,
    <<"@", "k", "b", "_", "a", "g", "e", "n", "t", " ", "/", "u", "p", "d", "a", "t", "e", " ", "1">>,
    <<"@", "k", "b", "_", "a", "g", "e", "n", "t", " ", "/", "u", "p", "d", "a", "t", "e", " ", "1", " ", "h", "i">>,
    <<"@", "k", "b", "_", "a", "g", "e", "n", "t", " ", "/", "u", "p", "d", "a", "t", "e", " ", "1", " ", "a", " ", "b">>,
    <<"@", "k", "b", "_", "a", "g", "e", "n", "t", " ", "/", "u", "p", "d", "a", "t", "e", " ", " ", "1", " ", " ", "a", " ", " ", "b">>,
    <<"@", "k", "b", "_", "a", "g", "e", "n", "t", " ", "/", "u", "p", "d", "a", "t", "e", " ", "2", " ", "h", "i">>,
    <<"@", "k", "b", "_", "a", "g", "e", "n", "t", " ", "/", "u", "p", "d", "a", "t", "e", "s", " ", "1", " ", "h", "i">>
  }

OtherCommandPrompts ==
  {
    <<"@", "k", "b", "_", "a", "g", "e", "n", "t", " ", "/", "f", "o", "o">>,
    <<"@", "k", "b", "_", "a", "g", "e", "n", "t", " ", "/", "f", "o", "o", " ", "1">>,
    <<"@", "k", "b", "_", "a", "g", "e", "n", "t", " ", "/", "c", "r", "e", "a", "t", "e">>,
    <<"@", "k", "b", "_", "a", "g", "e", "n", "t", " ", "/", "c", "r", "e", "a", "t", "e", " ", "1">>,
    <<"@", "k", "b", "_", "a", "g", "e", "n", "t", " ", "p", "a", "g", "e", " ", "1">>,
    <<"@", "k", "b", "_", "a", "g", "e", "n", "t", " ">>
  }

PlainPrompts ==
  {
    <<"h", "e", "l", "l", "o">>,
    <<>>,
    <<"[", "h", "i", "]", "(", "x", ")">>,
    <<"k", "b", "_", "a", "g", "e", "n", "t", " ", "/", "p", "a", "g", "e", " ", "1">>,
    <<"[", "@", "k", "b", "_", "a", "g", "e", "n", "t", " ", "/", "p", "a", "g", "e", " ", "1", "]", "(", "x", ")">>,
    <<" ", " ", "@", "k", "b", "_", "a", "g", "e", "n", "t", " ", "/", "p", "a", "g", "e", " ", "1", "\n">>,
    <<"[", "@", "k", "b", "_", "a", "g", "e", "n", "t", " ", "/", "p", "a", "g", "e", " ", "1", "]", "(", "x", ")", " ", "y">>,
    <<"@", "k", "b", "_", "a", "g", "e", "n", "t", "/", "p", "a", "g", "e", " ", "1">>
  }

\* the prompts of overlapping turns: one of each command that reaches the wiki
OverlapPrompts ==
  {
    <<"@", "k", "b", "_", "a", "g", "e", "n", "t", " ", "/", "a", "u", "t", "h", " ", "{t,h,e}">>,
    <<"@", "k", "b", "_", "a", "g", "e", "n", "t", " ", "/", "a", "u", "t", "h", " ", "{x,g,e}">>,
    <<"@", "k", "b", "_", "a", "g", "e", "n", "t", " ", "/", "p", "a", "g", "e", " ", "1">>,
    <<"@", "k", "b", "_", "a", "g", "e", "n", "t", " ", "/", "u", "p", "d", "a", "t", "e", " ", "1", " ", "h", "i">>,
    <<"h", "e", "l", "l", "o">>
  }

Prompts == AuthPrompts \cup {TruncatedAuthPrompt} \cup PagePrompts \cup UpdatePrompts
             \cup OtherCommandPrompts \cup PlainPrompts

(***************************************************************************)
(* makeConfluenceRequest: the request that fetch() is called with.         *)
(***************************************************************************)
ApiRoot == <<"/wiki/rest/api">>

\* Buffer.from(s).toString('base64'), kept symbolic: an injective encoding
Base64(s) == <<"base64(">> \o s \o <<")">>

BasicHeader(auth) == <<"Basic ">> \o Base64(auth.email \o <<":">> \o auth.token)

NoOptions == [method |-> <<"GET">>, body |-> null, headers |-> null]

DefaultHeaders(auth) ==
  [h \in {"Authorization", "Content-Type", "Accept"} |->
     IF h = "Authorization" THEN BasicHeader(auth) ELSE <<"application/json">>]

\* { ...a, ...b } : the keys of both, b winning
Spread(a, b) == [h \in DOMAIN a \cup DOMAIN b |-> IF h \in DOMAIN b THEN b[h] ELSE a[h]]

\* { headers: { ...defaults, ...(options.headers || {}) }, ...options } : the
\* trailing spread of options sets headers again when options has that key
MergedHeaders(auth, options) ==
  LET inner == IF options.headers = null
               THEN DefaultHeaders(auth)
               ELSE Spread(DefaultHeaders(auth), options.headers[1])
  IN  IF options.headers = null THEN inner ELSE options.headers[1]

\* the arguments of fetch(url, merged) when a credential auth is active
BuildRequest(auth, endpoint, options) ==
  [url     |-> auth.url \o ApiRoot \o endpoint,
   method  |-> options.method,
   headers |-> MergedHeaders(auth, options),
   body    |-> options.body]

NotAuthenticatedError == <<"Not authenticated. Please run @kb_agent /auth first.">>

SpaceEndpoint == <<"/space">>
ContentEndpoint(pageId) == <<"/content/">> \o pageId \o <<"?expand=body.storage,version,space">>
PutEndpoint(pageId) == <<"/content/">> \o pageId

(***************************************************************************)
(* The remote wiki.  One host, "h", serves the API; it accepts the account *)
(* e with token t and holds one page, id 1.  A write is accepted only with *)
(* version = current version + 1.                                          *)
(***************************************************************************)
WikiBase == <<"h">>
GoodAuth == Obj(<<"t">>, <<"h">>, <<"e">>)
ThePageId == <<"1">>
SpaceKey == <<"K">>
WebUi == <<"/pages/1">>

PageKeys == {"id", "title", "version", "space", "body", "_links"}

\* a JSON value returned by response.json(): isNull, or an object carrying the
\* top-level keys in present (a key that is present is complete below)
Json(present, w) ==
  [isNull |-> FALSE, present |-> present, id |-> ThePageId, title |-> w.title,
   version |-> w.version, key |-> SpaceKey, value |-> w.body, webui |-> WebUi]

JsonNull(w) == [Json({}, w) EXCEPT !.isNull = TRUE]

\* a fetch outcome: net = the promise rejected; otherwise a Response
NetworkFailure(w) ==
  [net |-> TRUE, status |-> 0, statusText |-> <<"fetch failed">>, parses |-> FALSE, json |-> JsonNull(w)]

HttpStatus(n, text, w) ==
  [net |-> FALSE, status |-> n, statusText |-> text, parses |-> FALSE, json |-> JsonNull(w)]

HttpOk(json) ==
  [net |-> FALSE, status |-> 200, statusText |-> <<"OK">>, parses |-> TRUE, json |-> json]

\* 200 with a body that is not JSON
HttpOkNotJson(w) ==
  [net |-> FALSE, status |-> 200, statusText |-> <<"OK">>, parses |-> FALSE, json |-> JsonNull(w)]

Ok(resp) == ~resp.net /\ resp.status >= 200 /\ resp.status <= 299

Routed(req) == StartsWith(req.url, WikiBase \o ApiRoot)
Endpoint(req) == SliceFrom(req.url, Len(WikiBase \o ApiRoot))
Authorized(req) ==
  /\ "Authorization" \in DOMAIN req.headers
  /\ req.headers["Authorization"] = BasicHeader(GoodAuth)

\* the page objects a 200 answer to GET /content/1 may carry: the page as
\* stored, or a body of another shape (one key missing, empty object, null)
PageAnswers(w) ==
  {HttpOk(Json(PageKeys, w)), HttpOk(Json({}, w)), HttpOk(JsonNull(w)), HttpOkNotJson(w)}
    \cup {HttpOk(Json(PageKeys \ {k}, w)) : k \in PageKeys}

\* what the wiki itself answers to req, and the wiki afterwards
Served(req, w) ==
  IF ~StartsWith(req.url, WikiBase) THEN {<<NetworkFailure(w), w>>}
  ELSE IF ~Routed(req) THEN {<<HttpStatus(404, <<"Not Found">>, w), w>>}
  ELSE IF ~Authorized(req) THEN {<<HttpStatus(401, <<"Unauthorized">>, w), w>>}
  ELSE IF req.method = <<"GET">> /\ Endpoint(req) = SpaceEndpoint
       THEN {<<HttpOk(Json({"results"}, w)), w>>}
  ELSE IF req.method = <<"GET">> /\ Endpoint(req) = ContentEndpoint(ThePageId)
       THEN {<<a, w>> : a \in PageAnswers(w)}
  ELSE IF req.method = <<"PUT">> /\ Endpoint(req) = PutEndpoint(ThePageId) /\ req.body # null
       THEN IF req.body[1].title = UNDEFINED
            THEN {<<HttpStatus(400, <<"Bad Request">>, w), w>>}
            ELSE IF req.body[1].version # w.version + 1
            THEN {<<HttpStatus(409, <<"Conflict">>, w), w>>}
            ELSE {<<HttpOk(Json(PageKeys, w)),
                    [version |-> req.body[1].version, title |-> req.body[1].title,
                     body |-> req.body[1].value]>>}
  ELSE {<<HttpStatus(404, <<"Not Found">>, w), w>>}

\* every outcome of one fetch: the wiki's answer, or a failure on the way
\* (the network drops the request, or a gateway refuses it with 403)
Outcomes(req, w) ==
  Served(req, w) \cup {<<NetworkFailure(w), w>>, <<HttpStatus(403, <<"Forbidden">>, w), w>>}

\* the outcomes followed when turns overlap: the wiki's answer in the documented
\* shape, or a failure (the other shapes of an answer are followed in turn-taking)
OverlapOutcomes(req, w) ==
  {o \in Outcomes(req, w) :
     Ok(o[1]) => /\ o[1].parses
                 /\ ~o[1].json.isNull
                 /\ o[1].json.present \in {PageKeys, {"results"}}}

(***************************************************************************)
(* The handler.  One invocation is a record; its code runs in segments,    *)
(* each from one await to the next.                                        *)
(***************************************************************************)
Prefix == <<"@", "k", "b", "_", "a", "g", "e", "n", "t", " ">>
CmdAuth == <<"/", "a", "u", "t", "h">>
CmdPage == <<"/", "p", "a", "g", "e">>
CmdUpdate == <<"/", "u", "p", "d", "a", "t", "e">>

INSTRUCTIONS == <<"You are KB Agent, an AI assistant integrated into VS Code. ...">>

\* the literal texts handed to stream.markdown (without emoji and backquotes)
MsgNoModel == <<"No Copilot model available.">>
MsgMissingFields == <<"Missing fields: token, url, email.">>
MsgAuthenticated == <<"Authenticated! You can now use /pages, /page, /update, /create.">>
MsgAuthFailed == <<"Auth failed: ">>
MsgInvalidJson == <<"Invalid JSON for authentication.">>
MsgNotAuthenticated == <<"Not authenticated. Run /auth first.">>
MsgUsagePage == <<"Usage: /page <pageId>">>
MsgFetchFailed == <<"Failed to fetch page: ">>
MsgUsageUpdate == <<"Usage: /update <pageId> <message to append>">>
MsgMissingMessage == <<"Missing message to append.">>
MsgAppended == <<"Appended content to [">>
MsgUpdateFailed == <<"Failed to update page: ">>
MsgUnknown == <<"Unknown command. Use /auth, /pages, /page <id>, /update <id> <text>, or /create.">>

TypeErrorMessage == <<"Cannot read properties of undefined">>
SyntaxErrorMessage == <<"Unexpected token in JSON">>

Idle ==
  [pc |-> "idle", prompt |-> <<>>, history |-> <<>>, authAtStart |-> null,
   auth |-> null, pageId |-> <<>>, message |-> <<>>, page |-> null,
   reqs |-> <<>>, resp |-> null, out |-> <<>>, threw |-> FALSE, messages |-> <<>>]

\* a return that streams nothing
Respond_NoPayload(t, text) == [t EXCEPT !.pc = "done"]

\* return stream.markdown(text)
Respond(t, text) == [t EXCEPT !.pc = "done", !.out = Append(@, text)]

\* makeConfluenceRequest up to its await of fetch: with no credential it
\* throws, otherwise the request leaves and the invocation waits at pc next
Request(t, ca, endpoint, options, next, failPrefix) ==
  IF ca = null
  THEN Respond(t, failPrefix \o NotAuthenticatedError)
  ELSE [t EXCEPT !.pc = next, !.resp = null,
                 !.reqs = Append(@, BuildRequest(ca[1], endpoint, options))]

\* the settled value of await makeConfluenceRequest(...) for a fetch outcome
Settled(resp) ==
  IF resp.net THEN [ok |-> FALSE, message |-> resp.statusText]
  ELSE IF ~Ok(resp)
  THEN [ok |-> FALSE, message |-> <<"HTTP ">> \o Digits(resp.status) \o <<": ">> \o resp.statusText]
  ELSE IF ~resp.parses THEN [ok |-> FALSE, message |-> SyntaxErrorMessage]
  ELSE [ok |-> TRUE, message |-> <<>>]

\* page.k : undefined when the key is absent
Top(json, k, v) == IF k \in json.present THEN v ELSE UNDEFINED
\* page.k.x throws when page.k is undefined
Throws(json, k) == json.isNull \/ k \notin json.present

(* lines 104-124 *)
AuthBranch(t, rest, ca) ==
  LET jsonText == Trim(ReplaceFirst(rest, CmdAuth))
      parsed == JSONparse(jsonText)
      data == parsed.data
      auth == [token |-> data.token, url |-> StripTrailingSlash(data.url), email |-> data.email]
  IN  IF parsed.kind \in {"error", "null"}
      THEN Respond(t, MsgInvalidJson)
      ELSE IF Falsy(data.token) \/ Falsy(data.url) \/ Falsy(data.email)
      THEN Respond(t, MsgMissingFields)
      ELSE Request([t EXCEPT !.auth = Some(auth)], ca, SpaceEndpoint, NoOptions, "probe", MsgAuthFailed)

(* lines 160-167 *)
PageBranch(t, rest, ca) ==
  LET parts == SplitFilter(rest)
  IN  IF Len(parts) < 2
      THEN Respond(t, MsgUsagePage)
      ELSE Request([t EXCEPT !.pageId = parts[2]], ca, ContentEndpoint(parts[2]),
                   NoOptions, "page", MsgFetchFailed)

\* UpdateBranch without the check that a message follows the id
UpdateBranch_NoMessageCheck(t, rest, ca) ==
  LET firstSpace == IndexOf(rest, " ")
      afterCmd == Trim(SliceFrom(rest, firstSpace))
      secondSpace == IndexOf(afterCmd, " ")
      pageId == IF secondSpace = -1 THEN afterCmd ELSE Trim(Slice(afterCmd, 0, secondSpace))
      messageToAppend == IF secondSpace = -1 THEN <<>> ELSE Trim(SliceFrom(afterCmd, secondSpace))
  IN  IF firstSpace = -1 THEN Respond(t, MsgUsageUpdate)
      ELSE Request([t EXCEPT !.pageId = pageId, !.message = messageToAppend], ca,
                   ContentEndpoint(pageId), NoOptions, "updRead", MsgUpdateFailed)

(* lines 181-192 *)
UpdateBranch(t, rest, ca) ==
  LET firstSpace == IndexOf(rest, " ")
      afterCmd == Trim(SliceFrom(rest, firstSpace))
      secondSpace == IndexOf(afterCmd, " ")
      pageId == Trim(Slice(afterCmd, 0, secondSpace))
      messageToAppend == Trim(SliceFrom(afterCmd, secondSpace))
  IN  IF firstSpace = -1 THEN Respond(t, MsgUsageUpdate)
      ELSE IF secondSpace = -1 THEN Respond(t, MsgMissingMessage)
      ELSE Request([t EXCEPT !.pageId = pageId, !.message = messageToAppend], ca,
                   ContentEndpoint(pageId), NoOptions, "updRead", MsgUpdateFailed)

(* lines 101-239, up to the first await of the branch taken *)
Dispatch(t, prompt, ca) ==
  LET rest == Trim(SliceFrom(prompt, Len(Prefix)))
  IN  IF StartsWith(rest, CmdAuth) THEN AuthBranch(t, rest, ca)
      ELSE IF ca = null THEN Respond(t, MsgNotAuthenticated)
      ELSE IF StartsWith(rest, CmdPage) THEN PageBranch(t, rest, ca)
      ELSE IF StartsWith(rest, CmdUpdate) THEN UpdateBranch(t, rest, ca)
      ELSE Respond(t, MsgUnknown)

\* a reload that takes the store whenever it holds a credential
Reloaded_Always(ca, saved) == IF saved # null THEN saved ELSE ca

(* lines 70-73 *)
Reloaded(ca, saved) == IF ca = null /\ saved # null THEN saved ELSE ca

(* lines 69-101: the handler from its entry to its first await *)
HandlerStart(original, history, ca) ==
  LET prompt == normalizePrompt(original)
      t == [Idle EXCEPT !.prompt = original, !.history = history, !.authAtStart = ca]
  IN  IF ~StartsWith(prompt, Prefix)
      THEN [t EXCEPT !.pc = "selectModel"]
      ELSE Dispatch(t, prompt, ca)

\* AfterProbe with the credential saved whatever the probe returned
AfterProbe_SaveUnverified(t, resp) == [t EXCEPT !.pc = "saving"]

(* lines 113-120: the probe has settled *)
AfterProbe(t, resp) ==
  IF Settled(resp).ok
  THEN [t EXCEPT !.pc = "saving"]
  ELSE Respond(t, MsgAuthFailed \o Settled(resp).message)

(* lines 168-173: the summary of a fetched page *)
PageOutput(page, ca) ==
  <<"### Page: ">> \o Str(Top(page, "title", page.title))
    \o <<"\n- ID: ">> \o Str(Top(page, "id", page.id))
    \o <<"\n- Space: ">> \o page.key
    \o <<"\n- Version: ">> \o Digits(page.version)
    \o <<"\n- URL: ">> \o ca[1].url \o <<"/wiki">> \o page.webui
    \o <<"\n\n**Content:**\n\n">> \o page.value

(* lines 164-177: the fetch of /page has settled *)
AfterPage(t, resp, ca) ==
  LET page == resp.json
  IN  IF ~Settled(resp).ok THEN Respond(t, MsgFetchFailed \o Settled(resp).message)
      ELSE IF page.isNull \/ Throws(page, "space") \/ Throws(page, "version")
              \/ ca = null \/ Throws(page, "_links") \/ Throws(page, "body")
      THEN Respond(t, MsgFetchFailed \o TypeErrorMessage)
      ELSE Respond(t, PageOutput(page, ca))

\* Payload with the version sent back as it was read
Payload_SameVersion(pageId, messageToAppend, page) ==
  [id |-> pageId, type |-> <<"page">>, title |-> Top(page, "title", page.title),
   key |-> page.key,
   value |-> page.value \o <<"<p>">> \o messageToAppend \o <<"</p>">>,
   representation |-> <<"storage">>,
   version |-> page.version]

\* a payload whose version number runs one ahead
Payload_VersionAhead(pageId, messageToAppend, page) ==
  [id |-> pageId, type |-> <<"page">>, title |-> Top(page, "title", page.title),
   key |-> page.key,
   value |-> page.value \o <<"<p>">> \o messageToAppend \o <<"</p>">>,
   representation |-> <<"storage">>,
   version |-> page.version + 2]

(* lines 193-206 *)
Payload(pageId, messageToAppend, page) ==
  [id |-> pageId, type |-> <<"page">>, title |-> Top(page, "title", page.title),
   key |-> page.key,
   value |-> page.value \o <<"<p>">> \o messageToAppend \o <<"</p>">>,
   representation |-> <<"storage">>,
   version |-> page.version + 1]

\* the read of /update sent a second time when the first has failed
AfterRead_RetryOnce(t, resp, ca) ==
  LET page == resp.json
  IN  IF ~Settled(resp).ok /\ Len(t.reqs) < 2
      THEN Request(t, ca, ContentEndpoint(t.pageId), NoOptions, "updRead", MsgUpdateFailed)
      ELSE IF ~Settled(resp).ok THEN Respond(t, MsgUpdateFailed \o Settled(resp).message)
      ELSE IF Throws(page, "body") \/ Throws(page, "space") \/ Throws(page, "version")
      THEN Respond(t, MsgUpdateFailed \o TypeErrorMessage)
      ELSE Request([t EXCEPT !.page = Some(page)], ca, PutEndpoint(t.pageId),
                   [method |-> <<"PUT">>, body |-> Some(Payload(t.pageId, t.message, page)),
                    headers |-> null],
                   "updWrite", MsgUpdateFailed)

(* lines 189-207: the read of /update has settled *)
AfterRead(t, resp, ca) ==
  LET page == resp.json
  IN  IF ~Settled(resp).ok THEN Respond(t, MsgUpdateFailed \o Settled(resp).message)
      ELSE IF Throws(page, "body") \/ Throws(page, "space") \/ Throws(page, "version")
      THEN Respond(t, MsgUpdateFailed \o TypeErrorMessage)
      ELSE Request([t EXCEPT !.page = Some(page)], ca, PutEndpoint(t.pageId),
                   [method |-> <<"PUT">>, body |-> Some(Payload(t.pageId, t.message, page)),
                    headers |-> null],
                   "updWrite", MsgUpdateFailed)

(* lines 207-211: the write of /update has settled *)
AfterWrite(t, resp, ca) ==
  LET page == t.page[1]
  IN  IF ~Settled(resp).ok THEN Respond(t, MsgUpdateFailed \o Settled(resp).message)
      ELSE IF ca = null \/ Throws(page, "_links")
      THEN Respond(t, MsgUpdateFailed \o TypeErrorMessage)
      ELSE Respond(t, MsgAppended \o Str(Top(page, "title", page.title)) \o <<"](">>
                       \o ca[1].url \o <<"/wiki">> \o page.webui \o <<")">>)

(***************************************************************************)
(* The conversational fallback, lines 80-99.                               *)
(***************************************************************************)
RequestTurn(text) == [isRequest |-> TRUE, prompt |-> text, parts |-> <<>>]
ResponseTurn(parts) == [isRequest |-> FALSE, prompt |-> <<>>, parts |-> parts]
Part(md, value) == [markdown |-> md, value |-> value]

Histories ==
  {<<>>,
   <<RequestTurn(<<"q">>), ResponseTurn(<<Part(TRUE, <<"a">>), Part(FALSE, <<"f">>), Part(TRUE, <<"b">>)>>),
     RequestTurn(<<"r">>), ResponseTurn(<<Part(FALSE, <<"f">>)>>)>>}

User(text) == [role |-> "user", text |-> text]
Assistant(text) == [role |-> "assistant", text |-> text]

\* .filter(markdown part).map(value).join('\n')
RECURSIVE JoinMarkdown(_, _)
JoinMarkdown(parts, first) ==
  IF parts = <<>> THEN <<>>
  ELSE IF ~Head(parts).markdown THEN JoinMarkdown(Tail(parts), first)
  ELSE (IF first THEN <<>> ELSE <<"\n">>) \o Head(parts).value \o JoinMarkdown(Tail(parts), FALSE)

RECURSIVE HistoryMessages(_)
HistoryMessages(history) ==
  IF history = <<>> THEN <<>>
  ELSE LET turn1 == Head(history)
           text == JoinMarkdown(turn1.parts, TRUE)
       IN  (IF turn1.isRequest THEN <<User(turn1.prompt)>>
            ELSE IF text # <<>> THEN <<Assistant(text)>> ELSE <<>>)
           \o HistoryMessages(Tail(history))

\* the messages with the normalized prompt last
Messages_Normalized(original, history) ==
  <<User(INSTRUCTIONS)>> \o HistoryMessages(history) \o <<User(normalizePrompt(original))>>

(* lines 83-95 *)
Messages(original, history) ==
  <<User(INSTRUCTIONS)>> \o HistoryMessages(history) \o <<User(original)>>

\* the fragments a model answer is streamed in
ModelAnswers == {<<>>, <<<<"Hi">>>>, <<<<"Hi">>, <<" there">>>>}

(***************************************************************************)
(* State.  confluenceAuth is the module-level slot, globalState the value  *)
(* stored under 'kbAgentAuth'; turn[p] is one invocation of the handler;   *)
(* wiki is the page held by the remote service; overlap tells whether the  *)
(* host starts a turn while another is still running.                      *)
(***************************************************************************)
StaleAuth == Obj(<<"x">>, <<"h">>, <<"e">>)
SavedAtActivation == {null, Some(GoodAuth), Some(StaleAuth)}

InitialWiki == [version |-> 1, title |-> <<"T">>, body |-> <<"<p>old</p>">>]

(* lines 37-41: activate *)
Activated ==
  /\ globalState \in SavedAtActivation
  /\ confluenceAuth = globalState
  /\ turn = [p \in Turns |-> Idle]
  /\ wiki = InitialWiki
  /\ called = null

Init == Activated /\ overlap = FALSE

InitOverlap == Activated /\ overlap = TRUE

Waiting == {"probe", "page", "updRead", "updWrite"}

\* the request an invocation is waiting on
Pending(t) == t.reqs[Len(t.reqs)]

(* line 69: the host calls the handler *)
Start(p) ==
  /\ turn[p].pc = "idle"
  /\ overlap \/ \A q \in Turns : turn[q].pc = "idle"
  /\ \E original \in (IF overlap THEN OverlapPrompts ELSE Prompts),
        history \in (IF overlap THEN {<<>>} ELSE Histories) :
       LET ca == Reloaded(confluenceAuth, globalState)
       IN  /\ confluenceAuth' = ca
           /\ turn' = [turn EXCEPT ![p] = HandlerStart(original, history, ca)]
  /\ UNCHANGED <<called, globalState, overlap, wiki>>

(* line 64: the fetch of a waiting invocation settles *)
Serve(p) ==
  /\ turn[p].pc \in Waiting
  /\ turn[p].resp = null
  /\ \E o \in (IF overlap THEN OverlapOutcomes(Pending(turn[p]), wiki)
                          ELSE Outcomes(Pending(turn[p]), wiki)) :
       /\ o[2].version <= MaxVersion
       /\ turn' = [turn EXCEPT ![p].resp = Some(o[1])]
       /\ wiki' = o[2]
  /\ UNCHANGED <<called, confluenceAuth, globalState, overlap>>

(* lines 114-115 and 44: the probe returns; saveAuth stores the candidate *)
ProbeDone(p) ==
  /\ turn[p].pc = "probe"
  /\ turn[p].resp # null
  /\ LET t == AfterProbe(turn[p], turn[p].resp[1])
     IN  /\ turn' = [turn EXCEPT ![p] = t]
         /\ globalState' = IF t.pc = "saving" THEN t.auth ELSE globalState
  /\ UNCHANGED <<called, confluenceAuth, overlap, wiki>>

(* lines 45 and 116: the store is written; the slot is set *)
SaveDone(p) ==
  /\ turn[p].pc = "saving"
  /\ confluenceAuth' = turn[p].auth
  /\ turn' = [turn EXCEPT ![p] = Respond(turn[p], MsgAuthenticated)]
  /\ UNCHANGED <<called, globalState, overlap, wiki>>

PageDone(p) ==
  /\ turn[p].pc = "page"
  /\ turn[p].resp # null
  /\ turn' = [turn EXCEPT ![p] = AfterPage(turn[p], turn[p].resp[1], confluenceAuth)]
  /\ UNCHANGED <<called, confluenceAuth, globalState, overlap, wiki>>

ReadDone(p) ==
  /\ turn[p].pc = "updRead"
  /\ turn[p].resp # null
  /\ turn' = [turn EXCEPT ![p] = AfterRead(turn[p], turn[p].resp[1], confluenceAuth)]
  /\ UNCHANGED <<called, confluenceAuth, globalState, overlap, wiki>>

WriteDone(p) ==
  /\ turn[p].pc = "updWrite"
  /\ turn[p].resp # null
  /\ turn' = [turn EXCEPT ![p] = AfterWrite(turn[p], turn[p].resp[1], confluenceAuth)]
  /\ UNCHANGED <<called, confluenceAuth, globalState, overlap, wiki>>

(* lines 81-96: selectChatModels resolves *)
ModelSelected(p) ==
  /\ turn[p].pc = "selectModel"
  /\ \E chatModel \in BOOLEAN :
       turn' = [turn EXCEPT ![p] =
                  IF ~chatModel THEN Respond(turn[p], MsgNoModel)
                  ELSE [turn[p] EXCEPT !.pc = "sendRequest",
                                       !.messages = Messages(turn[p].prompt, turn[p].history)]]
  /\ UNCHANGED <<called, confluenceAuth, globalState, overlap, wiki>>

(* lines 96-98: the model answers, or sendRequest rejects *)
ModelResponded(p) ==
  /\ turn[p].pc = "sendRequest"
  /\ \/ \E answer \in ModelAnswers :
          turn' = [turn EXCEPT ![p].pc = "done", ![p].out = @ \o answer]
     \/ turn' = [turn EXCEPT ![p].pc = "done", ![p].threw = TRUE]
  /\ UNCHANGED <<called, confluenceAuth, globalState, overlap, wiki>>

\* the handler's promise has settled; the slot is free for the next turn
Return(p) ==
  /\ turn[p].pc = "done"
  /\ turn' = [turn EXCEPT ![p] = Idle]
  /\ UNCHANGED <<called, confluenceAuth, globalState, overlap, wiki>>

\* somebody else edits the page on the wiki
ExternalEdit ==
  /\ wiki.version < MaxVersion
  /\ \E title \in {<<"T">>, <<"U">>} :
       wiki' = [version |-> wiki.version + 1, title |-> title, body |-> wiki.body \o <<"<p>ext</p>">>]
  /\ UNCHANGED <<called, confluenceAuth, globalState, overlap, turn>>

Next ==
  \/ \E p \in Turns : Start(p)
  \/ \E p \in Turns : Serve(p)
  \/ \E p \in Turns : ProbeDone(p)
  \/ \E p \in Turns : SaveDone(p)
  \/ \E p \in Turns : PageDone(p)
  \/ \E p \in Turns : ReadDone(p)
  \/ \E p \in Turns : WriteDone(p)
  \/ \E p \in Turns : ModelSelected(p)
  \/ \E p \in Turns : ModelResponded(p)
  \/ \E p \in Turns : Return(p)
  \/ ExternalEdit

Spec == Init /\ [][Next]_vars

SpecOverlap == InitOverlap /\ [][Next]_vars

(***************************************************************************)
(* Direct calls.  normalizePrompt is a pure function of its input: it is   *)
(* called on every string of InputChars up to MaxInputLen and on           *)
(* undefined, and called holds the input and what was returned.            *)
(***************************************************************************)
InputChars == {"[", "]", "(", ")", "a", " "}

Inputs == UNION {[1..n -> InputChars] : n \in 0..MaxInputLen} \cup {UNDEFINED}

NormalizeCall ==
  /\ called = null
  /\ \E input \in Inputs :
       called' = Some([fn |-> "normalizePrompt", input |-> input,
                       result |-> normalizePrompt(input)])
  /\ UNCHANGED <<confluenceAuth, globalState, overlap, turn, wiki>>

SpecNormalize == Init /\ [][NormalizeCall]_vars

(***************************************************************************)
(* makeConfluenceRequest called directly, with options of a caller's       *)
(* choosing: a method, and header overrides or none.  called holds the     *)
(* options and the arguments of fetch, or no request when the call threw   *)
(* for want of a credential.                                               *)
(***************************************************************************)
OverridableHeaders == {"Authorization", "Accept", "X-Trace"}

HeaderOverrides ==
  UNION {[keys -> {<<"v">>, <<"w">>}] : keys \in SUBSET OverridableHeaders}

CallerOptions ==
  {[method |-> m, body |-> null, headers |-> h] :
     m \in {<<"GET">>, <<"PUT">>}, h \in {null} \cup {Some(o) : o \in HeaderOverrides}}

RequestCall ==
  /\ called = null
  /\ \E endpoint \in {SpaceEndpoint, ContentEndpoint(ThePageId)}, options \in CallerOptions :
       called' = Some([fn |-> "makeConfluenceRequest", options |-> options,
                       auth |-> confluenceAuth,
                       request |-> IF confluenceAuth = null THEN null
                                   ELSE Some(BuildRequest(confluenceAuth[1], endpoint, options))])
  /\ UNCHANGED <<confluenceAuth, globalState, overlap, turn, wiki>>

SpecClient == Init /\ [][RequestCall]_vars

(***************************************************************************)
(* What a turn was asked, read off its prompt.                             *)
(***************************************************************************)
IsCommand(t) == StartsWith(normalizePrompt(t.prompt), Prefix)
RestOf(t) == Trim(SliceFrom(normalizePrompt(t.prompt), Len(Prefix)))
Words(t) == SplitFilter(RestOf(t))
\* the command name: the first word after the prefix
CommandName(t) == IF Words(t) = <<>> THEN <<>> ELSE Words(t)[1]
Active(t) == t.pc # "idle"
Finished(t) == t.pc = "done"

\* the text after the first word of s, without the blanks around it
RECURSIVE DropWord(_)
DropWord(s) == IF s = <<>> \/ Head(s) \in WhiteSpace THEN s ELSE DropWord(Tail(s))
AfterWord(s) == Trim(DropWord(TrimStart(s)))

\* the JSON value typed after /auth
AuthArgument(t) == JSONparse(AfterWord(RestOf(t)))
IsAuthCommand(t) == IsCommand(t) /\ CommandName(t) = CmdAuth
WellFormedAuth(t) ==
  /\ IsAuthCommand(t)
  /\ AuthArgument(t).kind = "object"
  /\ \A f \in {"token", "url", "email"} : ~Falsy(AuthArgument(t).data[f])

FailedOutcome(resp) == resp.net \/ resp.status < 200 \/ resp.status > 299 \/ ~resp.parses

(***************************************************************************)
(* C1: for every /auth with a well-formed payload, the probe request (base *)
(* URL and Basic-auth header) is built from the candidate credential of    *)
(* that payload, and a credential is persisted only after a probe made     *)
(* with that same credential succeeded.                                    *)
(***************************************************************************)
C1_ProbeUsesCandidate ==
  \A p \in Turns :
    turn[p].pc \in {"probe", "saving"} =>
      /\ turn[p].reqs[1].url = turn[p].auth[1].url \o ApiRoot \o SpaceEndpoint
      /\ turn[p].reqs[1].headers["Authorization"] = BasicHeader(turn[p].auth[1])

(***************************************************************************)
(* C2: starting with no credential stored, a /auth with a well-formed      *)
(* payload whose credential the wiki accepts, and whose probe is not lost  *)
(* on the way, ends with the success response and with that credential as  *)
(* the active credential.                                                  *)
(***************************************************************************)
C2_AuthCreatesCredential ==
  \A p \in Turns :
    ( /\ Finished(turn[p])
      /\ WellFormedAuth(turn[p])
      /\ turn[p].authAtStart = null
      /\ turn[p].auth = Some(GoodAuth)
      /\ turn[p].resp = null \/ ~FailedOutcome(turn[p].resp[1]) )
    => /\ turn[p].out = <<MsgAuthenticated>>
       /\ confluenceAuth = Some(GoodAuth)

(***************************************************************************)
(* C3: for every /auth with a well-formed payload the probe comes before   *)
(* any persistence: the store is written only by a turn whose probe has    *)
(* returned successfully, the slot only after the store; and a step that   *)
(* ends a /auth in "Auth failed" leaves slot and store as they were.       *)
(***************************************************************************)
AuthFailedIn(t) == Finished(t) /\ t.out # <<>> /\ StartsWith(t.out[1], MsgAuthFailed)

C3_ProbeBeforePersist ==
  [][ /\ globalState' # globalState =>
           \E p \in Turns : /\ turn[p].pc = "probe"
                            /\ turn[p].resp # null
                            /\ ~FailedOutcome(turn[p].resp[1])
                            /\ Len(turn[p].reqs) = 1
                            /\ globalState' = turn[p].auth
      /\ \A p \in Turns :
           (~AuthFailedIn(turn[p]) /\ AuthFailedIn(turn'[p])) =>
              /\ confluenceAuth' = confluenceAuth
              /\ globalState' = globalState
      /\ \A p \in Turns :
           (turn[p].pc = "probe" /\ turn[p].resp # null /\ FailedOutcome(turn[p].resp[1])
              /\ turn'[p] # turn[p]) => AuthFailedIn(turn'[p])
    ]_vars

\* a probe that failed with a credential stored: the turn reports it
C3_Witness ==
  \E p \in Turns :
    /\ AuthFailedIn(turn[p])
    /\ Len(turn[p].reqs) = 1
    /\ FailedOutcome(turn[p].resp[1])
    /\ confluenceAuth = Some(GoodAuth)
    /\ globalState = Some(GoodAuth)
    /\ turn[p].auth # Some(GoodAuth)

(***************************************************************************)
(* C4: a command-prefixed prompt whose subcommand is not auth, handled     *)
(* while no credential is stored, produces the authentication-required     *)
(* response and issues no HTTP request.                                    *)
(***************************************************************************)
C4_NoCredentialNoCommand ==
  \A p \in Turns :
    (Active(turn[p]) /\ IsCommand(turn[p]) /\ CommandName(turn[p]) # CmdAuth
       /\ turn[p].authAtStart = null)
    => /\ Finished(turn[p])
       /\ turn[p].out = <<MsgNotAuthenticated>>
       /\ turn[p].reqs = <<>>

(***************************************************************************)
(* C5: a command-prefixed prompt whose suffix is no known subcommand (such *)
(* as /foo) produces the unknown-command response whether or not a         *)
(* credential is stored.  Stated for the suffixes that do not even begin   *)
(* with the name of a known subcommand.                                    *)
(***************************************************************************)
UnrelatedSuffix(t) ==
  /\ IsCommand(t)
  /\ \A c \in {CmdAuth, CmdPage, CmdUpdate} : ~StartsWith(RestOf(t), c)

C5_UnknownInBothStates ==
  \A p \in Turns :
    (Active(turn[p]) /\ UnrelatedSuffix(turn[p]))
    => /\ Finished(turn[p])
       /\ turn[p].out = <<MsgUnknown>>

(***************************************************************************)
(* C6: with a credential stored, a command named pages or create, with or  *)
(* without arguments, produces the unknown-command response and issues no  *)
(* HTTP request.                                                           *)
(***************************************************************************)
ReservedNames == {<<"/", "p", "a", "g", "e", "s">>, <<"/", "c", "r", "e", "a", "t", "e">>}

C6_ReservedNamesUnknown ==
  \A p \in Turns :
    (Active(turn[p]) /\ IsCommand(turn[p]) /\ CommandName(turn[p]) \in ReservedNames
       /\ turn[p].authAtStart # null)
    => /\ Finished(turn[p])
       /\ turn[p].out = <<MsgUnknown>>
       /\ turn[p].reqs = <<>>

(***************************************************************************)
(* C7: for every /update <id> <text> whose read returned a page with       *)
(* version v, body b, title t and space key k, the one write request is a  *)
(* PUT to /content/<id> carrying id = <id>, type page, title t, space key  *)
(* k, version v + 1 and body b <p>text</p>, where text is everything after *)
(* the id, inner blanks included.                                          *)
(***************************************************************************)
IsUpdateCommand(t) == IsCommand(t) /\ CommandName(t) = CmdUpdate
\* <id> and <text> as typed
TypedId(t) == Words(t)[2]
TypedText(t) == AfterWord(AfterWord(RestOf(t)))

C7_WritePayload ==
  \A p \in Turns :
    LET t == turn[p]
    IN  /\ (Active(t) /\ IsUpdateCommand(t)) =>
              /\ Len(t.reqs) <= 2
              /\ \A i \in 1..Len(t.reqs) : (t.reqs[i].method = <<"PUT">>) <=> (i = 2)
              /\ Len(t.reqs) = 2 => t.page # null
        /\ (Active(t) /\ IsUpdateCommand(t) /\ t.page # null
              /\ {"title", "version", "space", "body"} \subseteq t.page[1].present) =>
              /\ Len(t.reqs) = 2
              /\ SubSeq(t.reqs[2].url, Len(t.reqs[2].url) - Len(TypedId(t)) - 1, Len(t.reqs[2].url))
                   = ApiRoot \o <<"/content/">> \o TypedId(t)
              /\ t.reqs[2].body =
                   Some([id |-> TypedId(t), type |-> <<"page">>, title |-> t.page[1].title,
                         key |-> t.page[1].key,
                         value |-> t.page[1].value \o <<"<p>">> \o TypedText(t) \o <<"</p>">>,
                         representation |-> <<"storage">>,
                         version |-> t.page[1].version + 1])

\* a write of a text with inner blanks to a page that was edited before
C7_Witness ==
  \E p \in Turns :
    /\ turn[p].pc = "updWrite"
    /\ IsUpdateCommand(turn[p])
    /\ TypedText(turn[p]) = <<"a", " ", " ", "b">>
    /\ turn[p].page[1].version = 2
    /\ turn[p].page[1].title = <<"U">>
    /\ turn[p].reqs[2].body[1].version = 3

(***************************************************************************)
(* C8: /page without an id, and /update without its id or without its      *)
(* text, issue no HTTP request whether or not a credential is stored, and  *)
(* with a credential stored they answer with a usage response.             *)
(***************************************************************************)
IsPageCommand(t) == IsCommand(t) /\ CommandName(t) = CmdPage

MissingArguments(t) ==
  \/ IsPageCommand(t) /\ Len(Words(t)) < 2
  \/ IsUpdateCommand(t) /\ Len(Words(t)) < 3

UsageResponses == {MsgUsagePage, MsgUsageUpdate, MsgMissingMessage}

C8_UsageNoRequest ==
  \A p \in Turns :
    (Active(turn[p]) /\ MissingArguments(turn[p])) =>
      /\ Finished(turn[p])
      /\ turn[p].reqs = <<>>
      /\ Len(turn[p].out) = 1
      /\ turn[p].authAtStart # null => turn[p].out[1] \in UsageResponses
      /\ (turn[p].authAtStart # null /\ IsPageCommand(turn[p])) => turn[p].out[1] = MsgUsagePage

\* /update with an id and no text, asked with a credential stored
C8_Witness ==
  \E p \in Turns :
    /\ Finished(turn[p])
    /\ IsUpdateCommand(turn[p])
    /\ Len(Words(turn[p])) = 2
    /\ turn[p].authAtStart # null
    /\ turn[p].out = <<MsgMissingMessage>>

(***************************************************************************)
(* C9: a /auth whose argument is not parseable JSON produces the           *)
(* invalid-JSON response, one whose JSON lacks token, url or email the     *)
(* missing-fields response; in both cases no HTTP request is issued and    *)
(* the stored credential is unchanged.                                     *)
(***************************************************************************)
LacksField(arg) ==
  /\ arg.kind # "error"
  /\ \E f \in {"token", "url", "email"} : arg.data[f] = UNDEFINED

C9_AuthPayloadErrors ==
  \A p \in Turns :
    LET t == turn[p]
        arg == AuthArgument(t)
    IN  (Active(t) /\ IsAuthCommand(t) /\ (arg.kind = "error" \/ LacksField(arg))) =>
          /\ Finished(t)
          /\ arg.kind = "error" => t.out = <<MsgInvalidJson>>
          /\ LacksField(arg) => t.out = <<MsgMissingFields>>
          /\ t.reqs = <<>>
          /\ confluenceAuth = t.authAtStart
          /\ globalState = t.authAtStart

(***************************************************************************)
(* C10: for /auth, /page and /update, a remote call that returns a         *)
(* non-success status N, fails at network level, or returns a malformed    *)
(* page object ends the invocation with one failure response that carries  *)
(* the reason (the number N for a bad status); no exception escapes the    *)
(* handler.                                                                *)
(***************************************************************************)
IsFailureResponse(text) ==
  \E prefix \in {MsgAuthFailed, MsgFetchFailed, MsgUpdateFailed} : StartsWith(text, prefix)

Malformed(json) == json.isNull \/ json.present # PageKeys

\* the page object a finished /page or /update got from its read, if any
ReadOf(t) ==
  IF t.page # null THEN t.page
  ELSE IF Len(t.reqs) = 1 /\ t.reqs[1].url # t.authAtStart[1].url \o ApiRoot \o SpaceEndpoint
          /\ ~FailedOutcome(t.resp[1])
  THEN Some(t.resp[1].json)
  ELSE null

C10_RemoteFailuresReported ==
  \A p \in Turns :
    LET t == turn[p]
    IN  /\ (Active(t) /\ IsCommand(t)) => ~t.threw
        /\ (Finished(t) /\ IsCommand(t) /\ t.reqs # <<>>) =>
              /\ FailedOutcome(t.resp[1]) => (Len(t.out) = 1 /\ IsFailureResponse(t.out[1]))
              /\ (~t.resp[1].net /\ ~Ok(t.resp[1])) => Contains(t.out[1], Digits(t.resp[1].status))
              /\ (ReadOf(t) # null /\ Malformed(ReadOf(t)[1])) =>
                   (Len(t.out) = 1 /\ IsFailureResponse(t.out[1]))

(***************************************************************************)
(* Scheduling.  A fetch that was sent settles (the remote call returns or  *)
(* fails), and the event loop runs the continuation of a settled await.    *)
(***************************************************************************)
SpecFair ==
  /\ Init
  /\ [][Next]_vars
  /\ \A p \in Turns :
       /\ WF_vars(Serve(p))
       /\ WF_vars(ProbeDone(p))
       /\ WF_vars(SaveDone(p))
       /\ WF_vars(PageDone(p))
       /\ WF_vars(ReadDone(p))
       /\ WF_vars(WriteDone(p))

(***************************************************************************)
(* C11: every command-prefixed prompt, in every credential state and for   *)
(* every outcome of its remote calls, terminates having produced exactly   *)
(* one response payload: none before it ends, one when it has ended, no    *)
(* exception instead of it; and once begun it does end.                    *)
(***************************************************************************)
C11_OnePayload ==
  /\ [](\A p \in Turns :
          (Active(turn[p]) /\ IsCommand(turn[p])) =>
             /\ ~turn[p].threw
             /\ Len(turn[p].out) = (IF Finished(turn[p]) THEN 1 ELSE 0))
  /\ \A p \in Turns :
       (Active(turn[p]) /\ IsCommand(turn[p])) ~> Finished(turn[p])

\* an /update that read the page, wrote it and was refused: one payload
C11_Witness ==
  \E p \in Turns :
    /\ Finished(turn[p])
    /\ IsUpdateCommand(turn[p])
    /\ Len(turn[p].reqs) = 2
    /\ FailedOutcome(turn[p].resp[1])
    /\ Len(turn[p].out) = 1

(***************************************************************************)
(* C12: starting from a persisted credential that is absent or has three   *)
(* non-empty fields, the active credential, in the slot and in the store,  *)
(* is always absent or has token, url and email all non-empty, whatever    *)
(* /auth payloads are processed (a url of just '/' included).              *)
(***************************************************************************)
Complete(auth) ==
  auth = null \/ \A f \in {"token", "url", "email"} : auth[1][f] # <<>>

C12_CredentialComplete == Complete(confluenceAuth) /\ Complete(globalState)

(***************************************************************************)
(* C13: the url of every credential persisted by /auth has any trailing    *)
(* slash stripped: a url stored by a /auth turn does not end with '/',     *)
(* whatever url was typed, one ending in more than one slash included.     *)
(***************************************************************************)
EndsWithSlash(s) == s # <<>> /\ s[Len(s)] = "/"

C13_NoTrailingSlash ==
  \A p \in Turns :
    (IsAuthCommand(turn[p]) /\ turn[p].pc \in {"saving", "done"}
       /\ turn[p].auth # null /\ globalState = turn[p].auth)
    => ~EndsWithSlash(globalState[1].url)

(***************************************************************************)
(* C14: a prompt whose normalized form does not start with the command     *)
(* prefix is handled by the conversational fallback alone, with or without *)
(* a credential: the model is sent the instructions, the history and, last,*)
(* the original prompt as typed (not its normalized form); no request goes *)
(* to the wiki and no step of the turn changes the credential.             *)
(***************************************************************************)
\* the history as the model is to see it: requests as user messages, answers
\* as assistant messages made of their markdown parts, empty answers left out
HistoryAsSent(history) ==
  IF history = <<>> THEN <<>>
  ELSE <<User(<<"q">>), Assistant(<<"a", "\n", "b">>), User(<<"r">>)>>

C14_FallbackOnly ==
  [][ \A p \in Turns :
        (turn'[p] # turn[p] /\ Active(turn'[p]) /\ ~IsCommand(turn'[p])) =>
           /\ confluenceAuth' = confluenceAuth
           /\ globalState' = globalState
           /\ wiki' = wiki
           /\ turn'[p].reqs = <<>>
           /\ turn'[p].pc \in {"selectModel", "sendRequest", "done"}
           /\ turn'[p].pc = "sendRequest" =>
                turn'[p].messages = <<User(INSTRUCTIONS)>> \o HistoryAsSent(turn'[p].history)
                                       \o <<User(turn'[p].prompt)>>
    ]_vars

\* a pure link that is no command, asked with a history and no credential,
\* answered by the model
C14_Witness ==
  \E p \in Turns :
    /\ Finished(turn[p])
    /\ turn[p].prompt = <<"[", "h", "i", "]", "(", "x", ")">>
    /\ turn[p].history # <<>>
    /\ turn[p].authAtStart = null
    /\ turn[p].out = <<<<"Hi">>, <<" there">>>>
    /\ turn[p].messages[Len(turn[p].messages)] = User(turn[p].prompt)
    /\ turn[p].reqs = <<>>

(***************************************************************************)
(* C15: for every input string, normalizePrompt returns the trimmed label  *)
(* when the trimmed input is exactly one markdown link [label](target)     *)
(* spanning the whole string, and otherwise the trimmed input unchanged; a *)
(* link followed by more text is not such a link, and an empty or          *)
(* undefined input gives the empty string.  A link is read as "[", a label *)
(* of one or more characters up to the first "]", "(", a target up to the  *)
(* first ")", and that ")" as the last character.                          *)
(***************************************************************************)
Chars(s) == {s[i] : i \in 1..Len(s)}

IsLink(s, label, target) ==
  /\ label # <<>>
  /\ "]" \notin Chars(label)
  /\ ")" \notin Chars(target)
  /\ s = <<"[">> \o label \o <<"]", "(">> \o target \o <<")">>

\* the labels under which s is a link: s cut after its i-th character
LabelsOf(s) ==
  {SubSeq(s, 2, i) : i \in {k \in 2..Len(s) :
                              IsLink(s, SubSeq(s, 2, k), SubSeq(s, k + 3, Len(s) - 1))}}

C15_Unwrap ==
  (called # null /\ called[1].fn = "normalizePrompt") =>
    LET given == called[1].input
        s == Trim(IF given = UNDEFINED THEN <<>> ELSE given)
    IN  /\ \A label \in LabelsOf(s) : called[1].result = Trim(label)
        /\ LabelsOf(s) = {} => called[1].result = s
        /\ given \in {<<>>, UNDEFINED} => called[1].result = <<>>

\* a link whose label has blanks around it
C15_Witness ==
  /\ called # null
  /\ called[1].fn = "normalizePrompt"
  /\ called[1].input = <<"[", " ", "a", "]", "(", ")">>
  /\ called[1].result = <<"a">>

(***************************************************************************)
(* C16: with a wiki that accepts a write only when its version is the      *)
(* current version plus one, a write of /update that arrives after the     *)
(* page was edited since the read of that /update is refused and leaves    *)
(* the page as the edit made it, and the turn ends with the ordinary       *)
(* update-failed response; whatever the interleaving of /update turns and  *)
(* outside edits, a write changes the page only if the page is still the   *)
(* one that turn read.                                                     *)
(***************************************************************************)
WriteSettles(p) ==
  turn[p].pc = "updWrite" /\ turn[p].resp = null /\ turn'[p].resp # null

C16_NoLostEdit ==
  [][ \A p \in Turns :
        /\ WriteSettles(p) =>
             /\ wiki.version # turn[p].page[1].version =>
                  (wiki' = wiki /\ FailedOutcome(turn'[p].resp[1]))
             /\ wiki' # wiki =>
                  /\ turn[p].page[1].version = wiki.version
                  /\ turn[p].page[1].value = wiki.body
                  /\ turn[p].page[1].title = wiki.title
        /\ (turn[p].pc = "updWrite" /\ turn[p].resp # null /\ turn'[p] # turn[p]
              /\ FailedOutcome(turn[p].resp[1])) =>
             /\ Finished(turn'[p])
             /\ ~turn'[p].threw
             /\ Len(turn'[p].out) = 1
             /\ StartsWith(turn'[p].out[1], MsgUpdateFailed)
    ]_vars

\* the page was edited after the read; the write was refused with 409, the
\* turn reported it and the page is as the edit left it
C16_Witness ==
  \E p \in Turns :
    /\ Finished(turn[p])
    /\ IsUpdateCommand(turn[p])
    /\ Len(turn[p].reqs) = 2
    /\ turn[p].resp[1].status = 409
    /\ turn[p].page[1].version = 1
    /\ wiki.version = 2
    /\ wiki.body = InitialWiki.body \o <<"<p>ext</p>">>
    /\ Len(turn[p].out) = 1
    /\ StartsWith(turn[p].out[1], MsgUpdateFailed)

(***************************************************************************)
(* C17: a /page or /update in flight keeps using the credential that was   *)
(* active when it began: each of its requests (base URL and Authorization  *)
(* header) and the link in its success response are built from that        *)
(* credential, also when a /auth of an overlapping turn succeeds between   *)
(* the read and the write of an /update.                                   *)
(***************************************************************************)
BuiltFrom(req, auth) ==
  /\ StartsWith(req.url, auth.url \o ApiRoot)
  /\ req.headers["Authorization"] = BasicHeader(auth)

C17_SnapshotCredential ==
  \A p \in Turns :
    LET t == turn[p]
    IN  (Active(t) /\ (IsPageCommand(t) \/ IsUpdateCommand(t)) /\ t.authAtStart # null) =>
          /\ \A i \in 1..Len(t.reqs) : BuiltFrom(t.reqs[i], t.authAtStart[1])
          /\ (Finished(t) /\ Len(t.out) = 1 /\ StartsWith(t.out[1], MsgAppended)) =>
               t.out = <<MsgAppended \o Str(t.page[1].title) \o <<"](">>
                           \o t.authAtStart[1].url \o <<"/wiki">> \o t.page[1].webui \o <<")">>>>

(***************************************************************************)
(* C18: there is no retry.  After a remote call of a turn has failed, that *)
(* turn issues no further request and its next step is its failure         *)
(* response.  A /auth and a /page issue at most one request, an /update at *)
(* most one read followed by at most one write, the write only after its   *)
(* read has succeeded, and a turn never has two requests in flight: a      *)
(* request leaves only when the one before it has been answered.           *)
(***************************************************************************)
C18_NoRetry ==
  [][ \A p \in Turns :
        LET t == turn[p]
            u == turn'[p]
        IN  /\ (Active(u) /\ IsCommand(u)) =>
                 /\ Len(u.reqs) <= (IF IsAuthCommand(u) \/ IsPageCommand(u) THEN 1 ELSE 2)
                 /\ Len(u.reqs) = 2 =>
                      /\ u.reqs[1].method = <<"GET">>
                      /\ u.reqs[2].method = <<"PUT">>
                      /\ u.page # null
            /\ (Active(t) /\ u # t /\ Len(u.reqs) > Len(t.reqs)) =>
                 /\ Len(u.reqs) = Len(t.reqs) + 1
                 /\ t.reqs # <<>> => (t.resp # null /\ ~FailedOutcome(t.resp[1]))
                 /\ u.resp = null
            /\ (t.pc \in Waiting /\ u # t /\ t.resp # null /\ FailedOutcome(t.resp[1])) =>
                 /\ Finished(u)
                 /\ u.reqs = t.reqs
                 /\ Len(u.out) = 1
                 /\ IsFailureResponse(u.out[1])
    ]_vars

\* an /update whose read failed: one request, then the failure response
C18_Witness ==
  \E p \in Turns :
    /\ Finished(turn[p])
    /\ IsUpdateCommand(turn[p])
    /\ Len(turn[p].reqs) = 1
    /\ FailedOutcome(turn[p].resp[1])
    /\ Len(turn[p].out) = 1
    /\ StartsWith(turn[p].out[1], MsgUpdateFailed)

(***************************************************************************)
(* C19: the active credential, in the slot and in the store, is written    *)
(* only by a /auth whose probe succeeded, and then with the credential of  *)
(* that /auth.  Every step of a /page, /update, unknown-command or         *)
(* conversational turn, the lazy reload at its start included, and every   *)
(* step that ends a /auth in a failure leaves both unchanged; once a       *)
(* credential is stored nothing clears it.                                 *)
(***************************************************************************)
AuthFailures == {MsgInvalidJson, MsgMissingFields}

EndsAuthInFailure(t) ==
  /\ Finished(t)
  /\ Len(t.out) = 1
  /\ t.out[1] \in AuthFailures \/ StartsWith(t.out[1], MsgAuthFailed)

C19_OnlyAuthWrites ==
  [][ /\ (confluenceAuth' # confluenceAuth \/ globalState' # globalState) =>
           \E p \in Turns :
             /\ IsAuthCommand(turn[p])
             /\ turn[p].pc \in {"probe", "saving"}
             /\ turn[p].resp # null
             /\ ~FailedOutcome(turn[p].resp[1])
             /\ turn'[p] # turn[p]
             /\ globalState' \in {globalState, turn[p].auth}
             /\ confluenceAuth' \in {confluenceAuth, turn[p].auth}
      /\ \A p \in Turns :
           (turn'[p] # turn[p] /\ Active(turn'[p]) /\ ~IsAuthCommand(turn'[p])) =>
              (confluenceAuth' = confluenceAuth /\ globalState' = globalState)
      /\ \A p \in Turns :
           (turn'[p] # turn[p] /\ IsAuthCommand(turn'[p]) /\ EndsAuthInFailure(turn'[p])) =>
              (confluenceAuth' = confluenceAuth /\ globalState' = globalState)
      /\ confluenceAuth # null => confluenceAuth' # null
      /\ globalState # null => globalState' # null
    ]_vars

\* a /auth has replaced the credential; a later /page fails with it and
\* leaves it where it is
C19_Witness ==
  \E p \in Turns :
    /\ Finished(turn[p])
    /\ IsPageCommand(turn[p])
    /\ turn[p].reqs # <<>>
    /\ StartsWith(turn[p].out[1], MsgFetchFailed)
    /\ confluenceAuth = Some(Obj(<<"x">>, <<"g">>, <<"e">>))
    /\ globalState = confluenceAuth

(***************************************************************************)
(* C20: for every call of the remote client with header overrides given by *)
(* the caller, the headers sent are the defaults merged with the           *)
(* overrides: an overridden header has the caller's value, a default that  *)
(* is not overridden is still there with its default value, and so every   *)
(* request carries an Authorization header.                                *)
(***************************************************************************)
C20_HeadersMerged ==
  (called # null /\ called[1].fn = "makeConfluenceRequest" /\ called[1].request # null
     /\ called[1].options.headers # null) =>
    LET sent == called[1].request[1].headers
        over == called[1].options.headers[1]
    IN  /\ \A h \in DOMAIN over : h \in DOMAIN sent /\ sent[h] = over[h]
        /\ \A h \in {"Content-Type", "Accept"} \ DOMAIN over :
             h \in DOMAIN sent /\ sent[h] = <<"application/json">>
        /\ "Authorization" \notin DOMAIN over =>
             ("Authorization" \in DOMAIN sent
                /\ sent["Authorization"] = BasicHeader(called[1].auth[1]))
        /\ "Authorization" \in DOMAIN sent

====
